---- MODULE Spec2Model ----
(***************************************************************************)
(* Model of autocode.py: file selection (blacklist / whitelist), the      *)
(* retried oracle call, the response parser and the application of        *)
(* deletions and edits to the filesystem.                                  *)
(*                                                                         *)
(* Strings are sequences of one-character strings, so that startswith,    *)
(* endswith, lower, strip, normpath and the regular expressions are        *)
(* computed character by character as the code computes them.             *)
(***************************************************************************)
EXTENDS Integers, Sequences, FiniteSets, TLC

VARIABLES
    fs,                 \* the filesystem below ROOT_DIRECTORY: path components -> node
    USE_BLACKLIST, EXCLUDE_DIRS, EXCLUDE_FILES, EXCLUDE_EXTENSIONS,
    INCLUDE_DIRS, INCLUDE_FILES, OPENAI_API_KEY, max_retries,
    pc,                 \* position of main() / call_gpt_api()
    files_to_process,   \* main: list returned by get_files_to_process
    files_content,      \* main: dict path -> content read before the oracle call
    prompt,             \* main: text returned by get_user_prompt
    attempt,            \* call_gpt_api: loop variable
    calls,              \* history: outcome of every oracle call made, in order
    sleeps,             \* history: argument of every time.sleep, in order
    gpt_response,       \* main: text returned by call_gpt_api
    modified_files,     \* main: ordered dict (sequence of <<path, code>>)
    files_to_delete,    \* main: list of paths
    idx,                \* position of the delete loop / the edit loop
    ops,                \* history: filesystem mutations performed, in order
    warnings,           \* history: logging.warning calls of the apply steps
    exit_code           \* process exit status (-1 while running)

vars == <<fs, USE_BLACKLIST, EXCLUDE_DIRS, EXCLUDE_FILES, EXCLUDE_EXTENSIONS,
          INCLUDE_DIRS, INCLUDE_FILES, OPENAI_API_KEY, max_retries, pc,
          files_to_process, files_content, prompt, attempt, calls, sleeps,
          gpt_response, modified_files, files_to_delete, idx, ops, warnings,
          exit_code>>

config == <<USE_BLACKLIST, EXCLUDE_DIRS, EXCLUDE_FILES, EXCLUDE_EXTENSIONS,
            INCLUDE_DIRS, INCLUDE_FILES, OPENAI_API_KEY, max_retries>>

(***************************************************************************)
(* Strings                                                                 *)
(***************************************************************************)
NL == "\n"
SEP == "/"

StartsWith(s, p) == Len(p) <= Len(s) /\ SubSeq(s, 1, Len(p)) = p

EndsWith(s, p) == Len(p) <= Len(s) /\ SubSeq(s, Len(s) - Len(p) + 1, Len(s)) = p

LowerChar(c) ==
    CASE c = "G" -> "g"
      [] c = "L" -> "l"
      [] c = "F" -> "f"
      [] c = "S" -> "s"
      [] c = "X" -> "x"
      [] OTHER -> c

Lower(s) == [i \in 1..Len(s) |-> LowerChar(s[i])]

IsSpace(c) == c \in {" ", NL}

RECURSIVE LStrip(_)
LStrip(s) == IF s # <<>> /\ IsSpace(Head(s)) THEN LStrip(Tail(s)) ELSE s

RECURSIVE RStrip(_)
RStrip(s) ==
    IF s # <<>> /\ IsSpace(s[Len(s)]) THEN RStrip(SubSeq(s, 1, Len(s) - 1)) ELSE s

Strip(s) == RStrip(LStrip(s))

\* str.split(sep) for a one-character separator: always at least one piece
RECURSIVE Split(_, _)
Split(s, sep) ==
    IF \A i \in 1..Len(s) : s[i] # sep
    THEN <<s>>
    ELSE LET k == CHOOSE i \in 1..Len(s) :
                      s[i] = sep /\ \A j \in 1..(i - 1) : s[j] # sep
         IN  <<SubSeq(s, 1, k - 1)>> \o Split(SubSeq(s, k + 1, Len(s)), sep)

\* sep.join(comps)
RECURSIVE Join(_, _)
Join(comps, sep) ==
    IF comps = <<>> THEN <<>>
    ELSE IF Len(comps) = 1 THEN comps[1]
    ELSE comps[1] \o <<sep>> \o Join(Tail(comps), sep)

(***************************************************************************)
(* os.path                                                                 *)
(***************************************************************************)
\* the component loop of posixpath.normpath
RECURSIVE NormComps(_, _, _)
NormComps(comps, new_comps, is_abs) ==
    IF comps = <<>> THEN new_comps
    ELSE LET comp == Head(comps) IN
         IF comp = <<>> \/ comp = <<".">>
         THEN NormComps(Tail(comps), new_comps, is_abs)
         ELSE IF comp # <<".", ".">>
                 \/ (~is_abs /\ new_comps = <<>>)
                 \/ (new_comps # <<>> /\ new_comps[Len(new_comps)] = <<".", ".">>)
         THEN NormComps(Tail(comps), Append(new_comps, comp), is_abs)
         ELSE IF new_comps # <<>>
         THEN NormComps(Tail(comps), SubSeq(new_comps, 1, Len(new_comps) - 1), is_abs)
         ELSE NormComps(Tail(comps), new_comps, is_abs)

normpath(path) ==
    IF path = <<>> THEN <<".">>
    ELSE LET is_abs == StartsWith(path, <<SEP>>)
             body   == Join(NormComps(Split(path, SEP), <<>>, is_abs), SEP)
             res    == IF is_abs THEN <<SEP>> \o body ELSE body
         IN  IF res = <<>> THEN <<".">> ELSE res

\* os.path.join(a, b)
path_join(a, b) ==
    IF StartsWith(b, <<SEP>>) THEN b
    ELSE IF a = <<>> \/ EndsWith(a, <<SEP>>) THEN a \o b
    ELSE a \o <<SEP>> \o b

(***************************************************************************)
(* The filesystem below ROOT_DIRECTORY.  fs maps the component sequence of *)
(* every existing entry to its node; the root itself is implicit.          *)
(*   kind "file"    a regular file                                         *)
(*   kind "dir"     a directory                                            *)
(*   kind "special" an entry os.walk lists among the file names but for    *)
(*                  which os.path.isfile is false (fifo, broken symlink)   *)
(* utf8 tells whether open(..., encoding="utf-8").read() succeeds.         *)
(***************************************************************************)
ROOT_DIRECTORY == <<".">>

FileNode(content, utf8) == [kind |-> "file", content |-> content, utf8 |-> utf8]
DirNode == [kind |-> "dir", content |-> <<>>, utf8 |-> FALSE]
SpecialNode == [kind |-> "special", content |-> <<>>, utf8 |-> FALSE]

\* the entry an absolute_path = os.path.join(ROOT_DIRECTORY, p) denotes, as
\* the operating system resolves it from the working directory
Resolve(absolute_path) == NormComps(Split(absolute_path, SEP), <<>>, FALSE)

Exists(f, absolute_path) ==
    ~StartsWith(absolute_path, <<SEP>>) /\ Resolve(absolute_path) \in DOMAIN f

isfile(f, absolute_path) ==
    Exists(f, absolute_path) /\ f[Resolve(absolute_path)].kind = "file"

isdir(f, absolute_path) ==
    ~StartsWith(absolute_path, <<SEP>>)
    /\ (Resolve(absolute_path) = <<>>
        \/ (Resolve(absolute_path) \in DOMAIN f
            /\ f[Resolve(absolute_path)].kind = "dir"))

IsPrefix(d, p) == Len(d) <= Len(p) /\ SubSeq(p, 1, Len(d)) = d

Children(f, dir) == {p \in DOMAIN f : Len(p) = Len(dir) + 1 /\ IsPrefix(dir, p)}

\* a directory listing: some fixed order of a set
RECURSIVE SetToSeq(_)
SetToSeq(S) ==
    IF S = {} THEN <<>>
    ELSE LET x == CHOOSE y \in S : TRUE IN <<x>> \o SetToSeq(S \ {x})

Range(q) == {q[i] : i \in 1..Len(q)}

RECURSIVE Flatten(_)
Flatten(qs) == IF qs = <<>> THEN <<>> ELSE Head(qs) \o Flatten(Tail(qs))

(***************************************************************************)
(* get_all_files                                                           *)
(***************************************************************************)
NormAll(paths) == {normpath(path) : path \in paths}

\* line 180: the blacklist test that keeps a subdirectory in dirnames
KeepDirBlacklist(rel_dir, d, exclude_dirs) ==
    normpath(path_join(rel_dir, d)) \notin exclude_dirs

\* line 183: the whitelist test that keeps a subdirectory in dirnames
KeepDirWhitelist(rel_dir, d, include_dirs) ==
    normpath(path_join(rel_dir, d)) \in include_dirs \/ include_dirs = {}

\* the directory test of line 190 without the separator
SkipFileBlacklist_NoSep(file_rel_path, exclude_dirs, exclude_files) ==
    \/ \E excl_dir \in exclude_dirs : StartsWith(file_rel_path, excl_dir)
    \/ file_rel_path \in exclude_files

\* lines 190-193: the blacklist tests that skip a file
SkipFileBlacklist(file_rel_path, exclude_dirs, exclude_files) ==
    \/ \E excl_dir \in exclude_dirs : StartsWith(file_rel_path, excl_dir \o <<SEP>>)
    \/ file_rel_path \in exclude_files

\* lines 196-199: the whitelist tests that skip a file
SkipFileWhitelist(file_rel_path, include_dirs, include_files) ==
    \/ (include_dirs # {}
        /\ ~\E inc_dir \in include_dirs : StartsWith(file_rel_path, inc_dir \o <<SEP>>))
    \/ (include_files # {} /\ file_rel_path \notin include_files)

\* lines 171-201: os.walk from dirpath (components dir), top-down
RECURSIVE WalkFrom(_, _, _)
WalkFrom(f, dir, r) ==
    LET relpath   == IF dir = <<>> THEN <<".">> ELSE Join(dir, SEP)
        rel_dir   == IF relpath = <<".">> THEN <<>> ELSE relpath
        dirnames  == SetToSeq({p[Len(p)] : p \in {c \in Children(f, dir) : f[c].kind = "dir"}})
        filenames == SetToSeq({p[Len(p)] : p \in {c \in Children(f, dir) : f[c].kind # "dir"}})
        KeepDir(d) ==
            IF r.use_blacklist THEN KeepDirBlacklist(rel_dir, d, r.exclude_dirs)
            ELSE KeepDirWhitelist(rel_dir, d, r.include_dirs)
        KeepFile(file_rel_path) ==
            IF r.use_blacklist
            THEN ~SkipFileBlacklist(file_rel_path, r.exclude_dirs, r.exclude_files)
            ELSE ~SkipFileWhitelist(file_rel_path, r.include_dirs, r.include_files)
        pruned    == SelectSeq(dirnames, KeepDir)
        rel_paths == [i \in 1..Len(filenames) |-> normpath(path_join(rel_dir, filenames[i]))]
        here      == SelectSeq(rel_paths, KeepFile)
    IN  here \o Flatten([i \in 1..Len(pruned) |-> WalkFrom(f, Append(dir, pruned[i]), r)])

get_all_files(f, exclude_dirs, exclude_files, include_dirs, include_files, use_blacklist) ==
    WalkFrom(f, <<>>, [exclude_dirs  |-> NormAll(exclude_dirs),
                       exclude_files |-> NormAll(exclude_files),
                       include_dirs  |-> NormAll(include_dirs),
                       include_files |-> NormAll(include_files),
                       use_blacklist |-> use_blacklist])

(***************************************************************************)
(* get_files_to_process                                                    *)
(***************************************************************************)
\* lines 219-222: the extension filter
HasExcludedExtension(file, exclude_extensions) ==
    \E ext \in exclude_extensions : EndsWith(Lower(file), Lower(ext))

\* lines 235-241: the final existence check
StillExists(f, file_path) == isfile(f, path_join(ROOT_DIRECTORY, file_path))

get_files_to_process(f, use_blacklist, c) ==
    LET files ==
            IF use_blacklist
            THEN SelectSeq(get_all_files(f, c.EXCLUDE_DIRS, c.EXCLUDE_FILES, {}, {}, TRUE),
                           LAMBDA file : ~HasExcludedExtension(file, c.EXCLUDE_EXTENSIONS))
            ELSE get_all_files(f, {}, {}, c.INCLUDE_DIRS, c.INCLUDE_FILES, FALSE)
    IN  SelectSeq(files, LAMBDA file_path : StillExists(f, file_path))

Config == [EXCLUDE_DIRS |-> EXCLUDE_DIRS, EXCLUDE_FILES |-> EXCLUDE_FILES,
           EXCLUDE_EXTENSIONS |-> EXCLUDE_EXTENSIONS,
           INCLUDE_DIRS |-> INCLUDE_DIRS, INCLUDE_FILES |-> INCLUDE_FILES]

(***************************************************************************)
(* main: the steps up to the oracle call                                   *)
(***************************************************************************)
GPT_MAX_RETRIES == 3

\* line 399-403
GetFilesToProcess ==
    /\ pc = "start"
    /\ files_to_process' = get_files_to_process(fs, USE_BLACKLIST, Config)
    /\ IF files_to_process' = <<>>
       THEN pc' = "done" /\ exit_code' = 0
       ELSE pc' = "read" /\ exit_code' = exit_code
    /\ UNCHANGED <<fs, config, files_content, prompt, attempt, calls, sleeps,
                   gpt_response, modified_files, files_to_delete, idx, ops, warnings>>

(***************************************************************************)
(* parse_gpt_response: the two regular expressions, matched as re.finditer *)
(* matches them (leftmost match, lazy groups, DOTALL, no overlap)          *)
(***************************************************************************)
FILE_PREFIX == <<"#", "#", "#", " ", "F", "i", "l", "e", ":", " ">>
DELETE_PREFIX == <<"#", "#", "#", " ", "D", "E", "L", "E", "T", "E", ":", " ">>
\* the backtick cannot be written in a string of this language: it is the atom BT
BT == "<backtick>"
NL_FENCE == <<NL, BT, BT, BT>>

WordChars ==
    {"a", "b", "c", "d", "e", "f", "g", "h", "i", "j", "k", "l", "m", "n",
    "o", "p", "q", "r", "s", "t", "u", "v", "w", "x", "y", "z", "A", "B",
    "C", "D", "E", "F", "G", "H", "I", "J", "K", "L", "M", "N", "O", "P",
    "Q", "R", "S", "T", "U", "V", "W", "X", "Y", "Z", "0", "1", "2", "3",
    "4", "5", "6", "7", "8", "9", "_"}

MatchAt(t, i, literal) ==
    i >= 1 /\ i + Len(literal) - 1 <= Len(t) /\ SubSeq(t, i, i + Len(literal) - 1) = literal

Min(S) == CHOOSE m \in S : \A n \in S : m <= n

\* (?P<language>\w+)? starting at l: the position after the longest run of \w
RECURSIVE WordEnd(_, _)
WordEnd(t, l) == IF l <= Len(t) /\ t[l] \in WordChars THEN WordEnd(t, l + 1) ELSE l

\* newline, fence, (\w+)?, newline matches at e
FenceOpenAt(t, e) ==
    MatchAt(t, e, NL_FENCE) /\ MatchAt(t, WordEnd(t, e + Len(NL_FENCE)), <<NL>>)

CodeStart(t, e) == WordEnd(t, e + Len(NL_FENCE)) + 1

\* the positions at which (?P<code>.*?) may end: a following newline and fence
CodeEnds(t, c) == {m \in c..Len(t) : MatchAt(t, m, NL_FENCE)}

\* the positions at which (?P<file>.+?) may end for a match starting at i
FileEnds(t, i) ==
    {e \in (i + Len(FILE_PREFIX) + 1)..Len(t) :
        FenceOpenAt(t, e) /\ CodeEnds(t, CodeStart(t, e)) # {}}

FileMatchStarts(t, pos) ==
    {i \in pos..Len(t) : MatchAt(t, i, FILE_PREFIX) /\ FileEnds(t, i) # {}}

\* re.finditer(file_pattern, response_text, re.DOTALL) from pos on: the
\* sequence of [file, code] groups
RECURSIVE FileMatches(_, _)
FileMatches(t, pos) ==
    IF FileMatchStarts(t, pos) = {} THEN <<>>
    ELSE LET i == Min(FileMatchStarts(t, pos))
             e == Min(FileEnds(t, i))
             c == CodeStart(t, e)
             m == Min(CodeEnds(t, c))
         IN  <<[file |-> SubSeq(t, i + Len(FILE_PREFIX), e - 1),
                code |-> SubSeq(t, c, m - 1)]>>
             \o FileMatches(t, m + Len(NL_FENCE))

\* the positions at which (?P<file>.+?) of delete_pattern may end
DeleteEnds(t, i) == {e \in (i + Len(DELETE_PREFIX) + 1)..Len(t) : t[e] = NL}

DeleteMatchStarts(t, pos) ==
    {i \in pos..Len(t) : MatchAt(t, i, DELETE_PREFIX) /\ DeleteEnds(t, i) # {}}

\* re.finditer(delete_pattern, response_text, re.DOTALL) from pos on
RECURSIVE DeleteMatches(_, _)
DeleteMatches(t, pos) ==
    IF DeleteMatchStarts(t, pos) = {} THEN <<>>
    ELSE LET i == Min(DeleteMatchStarts(t, pos))
             e == Min(DeleteEnds(t, i))
         IN  <<SubSeq(t, i + Len(DELETE_PREFIX), e - 1)>> \o DeleteMatches(t, e + 1)

\* line 359-360, 367-368
ParsedPath(raw) == normpath(Strip(raw))

\* modified_files[file_path] = code on an insertion-ordered dict
DictSet(d, key, value) ==
    IF \E i \in 1..Len(d) : d[i][1] = key
    THEN [i \in 1..Len(d) |-> IF d[i][1] = key THEN <<key, value>> ELSE d[i]]
    ELSE Append(d, <<key, value>>)

RECURSIVE CollectModified(_, _)
CollectModified(matches, d) ==
    IF matches = <<>> THEN d
    ELSE CollectModified(Tail(matches),
                         DictSet(d, ParsedPath(Head(matches).file), Head(matches).code))

parse_modified_files(response_text) == CollectModified(FileMatches(response_text, 1), <<>>)

parse_files_to_delete(response_text) ==
    LET ms == DeleteMatches(response_text, 1)
    IN  [i \in 1..Len(ms) |-> ParsedPath(ms[i])]

Keys(d) == {d[i][1] : i \in 1..Len(d)}

Value(d, key) == d[CHOOSE i \in 1..Len(d) : d[i][1] = key][2]

(***************************************************************************)
(* read_file_content, write_file_content, os.remove                        *)
(***************************************************************************)
\* None is modelled by a value no content equals
None == <<"<None>">>

read_file_content(f, file_path) ==
    IF isfile(f, file_path) /\ f[Resolve(file_path)].utf8
    THEN f[Resolve(file_path)].content
    ELSE None

\* the newline appended without the test of line 153
EnsureNewline_Always(content) == content \o <<NL>>

\* lines 153-154
EnsureNewline(content) == IF EndsWith(content, <<NL>>) THEN content ELSE content \o <<NL>>

\* a file opened in a mode that does not create it
CanOpenForWrite_ExistingOnly(f, file_path) ==
    isfile(f, file_path)

\* open(file_path, "w") succeeds: the parent is a directory and the path is
\* free or a regular file
CanOpenForWrite(f, file_path) ==
    LET p == Resolve(file_path) IN
    /\ ~StartsWith(file_path, <<SEP>>)
    /\ p # <<>>
    /\ p[Len(p)] # <<".", ".">>
    /\ (Len(p) = 1 \/ (SubSeq(p, 1, Len(p) - 1) \in DOMAIN f
                       /\ f[SubSeq(p, 1, Len(p) - 1)].kind = "dir"))
    /\ (p \in DOMAIN f => f[p].kind = "file")

WithEntry(f, p, node) == [q \in DOMAIN f \cup {p} |-> IF q = p THEN node ELSE f[q]]

WithoutEntry(f, p) == [q \in DOMAIN f \ {p} |-> f[q]]

\* lines 148-159: the filesystem after write_file_content(file_path, content)
write_file_content(f, file_path, content) ==
    IF CanOpenForWrite(f, file_path)
    THEN WithEntry(f, Resolve(file_path), FileNode(EnsureNewline(content), TRUE))
    ELSE f

Op(op, p, content) == [op |-> op, path |-> p, content |-> content]

Warning(msg, file_path) == [msg |-> msg, path |-> file_path]

(***************************************************************************)
(* main, lines 405-420                                                     *)
(***************************************************************************)
RECURSIVE ReadAll(_, _, _)
ReadAll(f, files, d) ==
    IF files = <<>> THEN d
    ELSE LET content == read_file_content(f, path_join(ROOT_DIRECTORY, Head(files)))
         IN  ReadAll(f, Tail(files),
                     IF content # None THEN DictSet(d, Head(files), content) ELSE d)

ReadFiles ==
    /\ pc = "read"
    /\ files_content' = ReadAll(fs, files_to_process, <<>>)
    /\ IF files_content' = <<>>
       THEN pc' = "done" /\ exit_code' = 0
       ELSE pc' = "prompt" /\ exit_code' = exit_code
    /\ UNCHANGED <<fs, config, files_to_process, prompt, attempt, calls, sleeps,
                   gpt_response, modified_files, files_to_delete, idx, ops, warnings>>

\* what get_user_prompt can return: the lines typed before the first blank one
Prompts == {<<>>, <<"g", "o">>}

GetUserPrompt ==
    /\ pc = "prompt"
    /\ \E text \in Prompts : prompt' = text
    /\ IF Strip(prompt') = <<>>
       THEN pc' = "done" /\ exit_code' = 0
       ELSE pc' = "call" /\ exit_code' = exit_code
    /\ UNCHANGED <<fs, config, files_to_process, files_content, attempt, calls, sleeps,
                   gpt_response, modified_files, files_to_delete, idx, ops, warnings>>

(***************************************************************************)
(* call_gpt_api                                                            *)
(***************************************************************************)
RECURSIVE Pow2(_)
Pow2(n) == IF n = 0 THEN 1 ELSE 2 * Pow2(n - 1)

\* a linear backoff in place of the exponential one
wait_time_Linear(k) == 2 * k

\* line 338
wait_time(k) == Pow2(k)

\* range(1, max_retries + 1) has a next value
LoopContinues(k, n) == k <= n

Call(k, ok, text) == [attempt |-> k, ok |-> ok, text |-> text]

\* lines 291-295, and the loop variable takes its first value
ApiKeyCheck ==
    /\ pc = "call"
    /\ IF OPENAI_API_KEY = <<>>
       THEN pc' = "failed" /\ exit_code' = 1 /\ attempt' = attempt
       ELSE pc' = "attempt" /\ exit_code' = exit_code /\ attempt' = 1
    /\ UNCHANGED <<fs, config, files_to_process, files_content, prompt, calls, sleeps,
                   gpt_response, modified_files, files_to_delete, idx, ops, warnings>>

\* lines 319-333: the oracle answers with one of texts
ApiSucceeds(texts) ==
    /\ pc = "attempt"
    /\ LoopContinues(attempt, max_retries)
    /\ \E text \in texts :
          /\ calls' = Append(calls, Call(attempt, TRUE, text))
          /\ gpt_response' = text
    /\ pc' = "parse"
    /\ UNCHANGED <<fs, config, files_to_process, files_content, prompt, attempt, sleeps,
                   modified_files, files_to_delete, idx, ops, warnings, exit_code>>

\* lines 319-336: the call raises
ApiFails ==
    /\ pc = "attempt"
    /\ LoopContinues(attempt, max_retries)
    /\ calls' = Append(calls, Call(attempt, FALSE, <<>>))
    /\ pc' = "sleep"
    /\ UNCHANGED <<fs, config, files_to_process, files_content, prompt, attempt, sleeps,
                   gpt_response, modified_files, files_to_delete, idx, ops, warnings,
                   exit_code>>

\* lines 338-340, and the loop variable takes its next value
ApiSleep ==
    /\ pc = "sleep"
    /\ sleeps' = Append(sleeps, wait_time(attempt))
    /\ attempt' = attempt + 1
    /\ pc' = "attempt"
    /\ UNCHANGED <<fs, config, files_to_process, files_content, prompt, calls,
                   gpt_response, modified_files, files_to_delete, idx, ops, warnings,
                   exit_code>>

\* the loop falling through to the caller in place of sys.exit(1)
ApiExhausted_FallsThrough ==
    /\ pc = "attempt"
    /\ ~LoopContinues(attempt, max_retries)
    /\ pc' = "parse"
    /\ UNCHANGED <<fs, config, files_to_process, files_content, prompt, attempt, calls,
                   sleeps, gpt_response, modified_files, files_to_delete, idx, ops,
                   warnings, exit_code>>

\* lines 342-343
ApiExhausted ==
    /\ pc = "attempt"
    /\ ~LoopContinues(attempt, max_retries)
    /\ pc' = "failed"
    /\ exit_code' = 1
    /\ UNCHANGED <<fs, config, files_to_process, files_content, prompt, attempt, calls,
                   sleeps, gpt_response, modified_files, files_to_delete, idx, ops,
                   warnings>>

(***************************************************************************)
(* main, lines 425-448, and delete_files                                   *)
(***************************************************************************)
Parse ==
    /\ pc = "parse"
    /\ modified_files' = parse_modified_files(gpt_response)
    /\ files_to_delete' = parse_files_to_delete(gpt_response)
    /\ pc' = "delete"
    /\ idx' = 1
    /\ UNCHANGED <<fs, config, files_to_process, files_content, prompt, attempt, calls,
                   sleeps, gpt_response, ops, warnings, exit_code>>

\* os.path.exists in place of os.path.isfile
ShouldRemove_AnyEntry(f, file_path) == Exists(f, path_join(ROOT_DIRECTORY, file_path))

\* line 382: the test that sends a path to os.remove
ShouldRemove(f, file_path) == isfile(f, path_join(ROOT_DIRECTORY, file_path))

\* lines 380-387: one iteration of delete_files that removes
DeleteFile ==
    /\ pc = "delete"
    /\ idx <= Len(files_to_delete)
    /\ ShouldRemove(fs, files_to_delete[idx])
    /\ LET p == Resolve(path_join(ROOT_DIRECTORY, files_to_delete[idx])) IN
          /\ fs' = WithoutEntry(fs, p)
          /\ ops' = Append(ops, Op("remove", p, <<>>))
    /\ idx' = idx + 1
    /\ UNCHANGED <<config, files_to_process, files_content, prompt, attempt, calls, sleeps,
                   gpt_response, modified_files, files_to_delete, pc, warnings, exit_code>>

\* lines 388-389: one iteration of delete_files that warns
DeleteMissing ==
    /\ pc = "delete"
    /\ idx <= Len(files_to_delete)
    /\ ~ShouldRemove(fs, files_to_delete[idx])
    /\ warnings' = Append(warnings, Warning("File to delete does not exist",
                                            files_to_delete[idx]))
    /\ idx' = idx + 1
    /\ UNCHANGED <<fs, config, files_to_process, files_content, prompt, attempt, calls,
                   sleeps, gpt_response, modified_files, files_to_delete, pc, ops, exit_code>>

\* delete_files returns (or lines 432-433), and main goes on to the edits
DeleteDone ==
    /\ pc = "delete"
    /\ idx > Len(files_to_delete)
    /\ pc' = "edit"
    /\ idx' = 1
    /\ UNCHANGED <<fs, config, files_to_process, files_content, prompt, attempt, calls,
                   sleeps, gpt_response, modified_files, files_to_delete, ops, warnings,
                   exit_code>>

\* the edit loop without the membership test
MayEdit_Always(file_path, content_dict) == TRUE

\* line 438: the test that lets an edit through
MayEdit(file_path, content_dict) == file_path \in Keys(content_dict)

\* lines 438-442: one iteration of the edit loop that writes
EditWrite ==
    /\ pc = "edit"
    /\ idx <= Len(modified_files)
    /\ MayEdit(modified_files[idx][1], files_content)
    /\ LET absolute_path == path_join(ROOT_DIRECTORY, modified_files[idx][1]) IN
          /\ fs' = write_file_content(fs, absolute_path, modified_files[idx][2])
          /\ ops' = IF CanOpenForWrite(fs, absolute_path)
                    THEN Append(ops, Op("write", Resolve(absolute_path),
                                        fs'[Resolve(absolute_path)].content))
                    ELSE ops
    /\ idx' = idx + 1
    /\ UNCHANGED <<config, files_to_process, files_content, prompt, attempt, calls, sleeps,
                   gpt_response, modified_files, files_to_delete, pc, warnings, exit_code>>

\* lines 443-444: one iteration of the edit loop that skips
EditSkip ==
    /\ pc = "edit"
    /\ idx <= Len(modified_files)
    /\ ~MayEdit(modified_files[idx][1], files_content)
    /\ warnings' = Append(warnings, Warning("Received modification for unknown file",
                                            modified_files[idx][1]))
    /\ idx' = idx + 1
    /\ UNCHANGED <<fs, config, files_to_process, files_content, prompt, attempt, calls,
                   sleeps, gpt_response, modified_files, files_to_delete, pc, ops, exit_code>>

\* lines 445-448 and the normal return of main
EditDone ==
    /\ pc = "edit"
    /\ idx > Len(modified_files)
    /\ pc' = "done"
    /\ exit_code' = 0
    /\ UNCHANGED <<fs, config, files_to_process, files_content, prompt, attempt, calls,
                   sleeps, gpt_response, modified_files, files_to_delete, idx, ops,
                   warnings>>

(***************************************************************************)
(* Inputs of the file selection                                            *)
(***************************************************************************)
MaxFiles == 3

NameS == <<"s">>
NameSX == <<"s", "x">>
NameF == <<"f">>
NameGL == <<"G", ".", "L">>

CandidateDirs == {<<>>, <<NameS>>, <<NameSX>>, <<NameS, NameSX>>}
CandidateFiles == {Append(d, n) : d \in CandidateDirs, n \in {NameF, NameGL}}

Prefixes(p) == {SubSeq(p, 1, k) : k \in 1..(Len(p) - 1)}

\* the tree that holds the entries F as regular files with the given content,
\* the entries S as special files, and the directories above them
TreeOf(F, S, content, binary) ==
    LET dirs == UNION {Prefixes(p) : p \in F \cup S}
    IN  [p \in F \cup S \cup dirs |->
            IF p \in dirs THEN DirNode
            ELSE IF p \in S THEN SpecialNode
            ELSE FileNode(content, p \notin binary)]

SelectTrees ==
    {TreeOf(F \ S, S, <<"x">>, {}) :
        <<F, S>> \in {<<F, S>> \in (SUBSET CandidateFiles) \X (SUBSET CandidateFiles) :
                        /\ Cardinality(F) <= MaxFiles
                        /\ S \subseteq F
                        /\ Cardinality(S) <= 1}}

RawDirs == {<<"s", "/">>, <<".", "/", "s", "x">>, <<"s", "/", "s", "x">>}
RawFiles == {<<"f">>, <<".", "/", "s", "/", "f">>}
RawExtensions == {<<".", "l">>}

InitRun ==
    /\ pc = "start"
    /\ files_to_process = <<>>
    /\ files_content = <<>>
    /\ prompt = <<>>
    /\ attempt = 0
    /\ calls = <<>>
    /\ sleeps = <<>>
    /\ gpt_response = <<>>
    /\ modified_files = <<>>
    /\ files_to_delete = <<>>
    /\ idx = 0
    /\ ops = <<>>
    /\ warnings = <<>>
    /\ exit_code = -1

InitSelect ==
    /\ fs \in SelectTrees
    /\ USE_BLACKLIST \in BOOLEAN
    /\ EXCLUDE_DIRS \in SUBSET RawDirs
    /\ EXCLUDE_FILES \in SUBSET RawFiles
    /\ EXCLUDE_EXTENSIONS \in SUBSET RawExtensions
    /\ INCLUDE_DIRS \in SUBSET RawDirs
    /\ INCLUDE_FILES \in SUBSET RawFiles
    \* get_files_to_process passes only the active mode's lists on
    /\ USE_BLACKLIST => INCLUDE_DIRS = {} /\ INCLUDE_FILES = {}
    /\ ~USE_BLACKLIST => EXCLUDE_DIRS = {} /\ EXCLUDE_FILES = {} /\ EXCLUDE_EXTENSIONS = {}
    /\ OPENAI_API_KEY = <<"k">>
    /\ max_retries = GPT_MAX_RETRIES
    /\ InitRun

NextSelect == GetFilesToProcess

SpecSelect == InitSelect /\ [][NextSelect]_vars

(***************************************************************************)
(* Inputs of a whole run                                                   *)
(***************************************************************************)
MaxBlocks == 2

FENCE == <<BT, BT, BT>>

\* an edit block as the request asks the oracle to write it
EditBlock(path, language, body) ==
    FILE_PREFIX \o path \o <<NL>> \o FENCE \o language \o <<NL>> \o body \o <<NL>>
        \o FENCE \o <<NL>>

DeleteLine(path) == DELETE_PREFIX \o path \o <<NL>>

Prose == <<"o", "k", NL>>

PathF == <<"f">>
PathDotF == <<".", "/", "f">>
PathGL == <<"G", ".", "L">>
PathSF == <<"s", "/", "f">>
PathS == <<"s">>
PathN == <<"n">>

Blocks ==
    { EditBlock(PathF, <<"p", "y">>, <<"x">>),
      EditBlock(PathDotF, <<>>, <<"y", NL>>),
      EditBlock(PathF, <<>>, <<>>),
      EditBlock(PathGL, <<>>, <<"x">>),
      EditBlock(PathSF, <<>>, <<"z", NL, NL>>),
      DeleteLine(PathF), DeleteLine(PathS), DeleteLine(PathGL), DeleteLine(PathN),
      Prose }

RECURSIVE TextsOf(_)
TextsOf(n) ==
    IF n = 0 THEN {<<>>}
    ELSE TextsOf(n - 1) \cup {t \o b : t \in TextsOf(n - 1), b \in Blocks}

OracleTexts == TextsOf(MaxBlocks)

RunFiles == {<<NameF>>, <<NameGL>>, <<NameS, NameF>>}

RunTrees ==
    {TreeOf(F, {}, <<"o">>, B) :
        <<F, B>> \in {<<F, B>> \in (SUBSET RunFiles) \X (SUBSET {<<NameF>>}) :
                        B \subseteq F}}

InitMain ==
    /\ fs \in RunTrees
    /\ USE_BLACKLIST = TRUE
    /\ EXCLUDE_DIRS \in {{}, {<<"s", "/">>}}
    /\ EXCLUDE_FILES = {}
    /\ EXCLUDE_EXTENSIONS = RawExtensions
    /\ INCLUDE_DIRS = {}
    /\ INCLUDE_FILES = {}
    /\ OPENAI_API_KEY \in {<<>>, <<"k">>}
    /\ max_retries = GPT_MAX_RETRIES
    /\ InitRun

Next ==
    \/ GetFilesToProcess
    \/ ReadFiles
    \/ GetUserPrompt
    \/ ApiKeyCheck
    \/ ApiSucceeds(OracleTexts)
    \/ ApiFails
    \/ ApiSleep
    \/ ApiExhausted
    \/ Parse
    \/ DeleteFile
    \/ DeleteMissing
    \/ DeleteDone
    \/ EditWrite
    \/ EditSkip
    \/ EditDone

Spec == InitMain /\ [][Next]_vars

(***************************************************************************)
(* Inputs of call_gpt_api alone                                            *)
(***************************************************************************)
MaxRetries == 4

InitRetry ==
    /\ fs = TreeOf({<<NameF>>}, {}, <<"o">>, {})
    /\ USE_BLACKLIST = TRUE
    /\ EXCLUDE_DIRS = {}
    /\ EXCLUDE_FILES = {}
    /\ EXCLUDE_EXTENSIONS = {}
    /\ INCLUDE_DIRS = {}
    /\ INCLUDE_FILES = {}
    /\ OPENAI_API_KEY \in {<<>>, <<"k">>}
    /\ max_retries \in 0..MaxRetries
    /\ pc = "call"
    /\ files_to_process = <<PathF>>
    /\ files_content = <<<<PathF, <<"o">>>>>>
    /\ prompt = <<"g", "o">>
    /\ attempt = 0
    /\ calls = <<>>
    /\ sleeps = <<>>
    /\ gpt_response = <<>>
    /\ modified_files = <<>>
    /\ files_to_delete = <<>>
    /\ idx = 0
    /\ ops = <<>>
    /\ warnings = <<>>
    /\ exit_code = -1

NextRetry ==
    \/ ApiKeyCheck
    \/ ApiSucceeds(Blocks)
    \/ ApiFails
    \/ ApiSleep
    \/ ApiExhausted

SpecRetry == InitRetry /\ [][NextRetry]_vars

(***************************************************************************)
(* Claims about the file selection                                         *)
(***************************************************************************)
PathOf(p) == Join(p, SEP)

RegularFiles == {p \in DOMAIN fs : fs[p].kind = "file"}

Selected(p) == \E i \in 1..Len(files_to_process) : files_to_process[i] = Join(p, SEP)

\* the directory or file a rule names, as components below the root
RuleComps(rule) == NormComps(Split(rule, SEP), <<>>, FALSE)

UnderDir(p, rules) ==
    \E d \in rules : Len(RuleComps(d)) < Len(p) /\ IsPrefix(RuleComps(d), p)

ListedIn(p, rules) == \E r \in rules : RuleComps(r) = p

NoDuplicates(q) == \A i, j \in 1..Len(q) : q[i] = q[j] => i = j

SelectionDone == pc # "start"

\* C1: whitelist mode with includeDirs and includeFiles both empty selects
\* nothing, whatever the tree holds
C1_EmptyWhitelistSelectsNothing ==
    (SelectionDone /\ ~USE_BLACKLIST /\ INCLUDE_DIRS = {} /\ INCLUDE_FILES = {})
        => files_to_process = <<>>

\* C2: whitelist mode with some include rule: a regular file is selected iff
\* it is inside an included directory or listed in includeFiles
C2_WhitelistIsUnion ==
    (SelectionDone /\ ~USE_BLACKLIST /\ (INCLUDE_DIRS # {} \/ INCLUDE_FILES # {}))
        => \A p \in RegularFiles :
               Selected(p) <=> (UnderDir(p, INCLUDE_DIRS) \/ ListedIn(p, INCLUDE_FILES))

Eligible == Keys(files_content)

Writes == {i \in 1..Len(ops) : ops[i].op = "write"}
Removes == {i \in 1..Len(ops) : ops[i].op = "remove"}

Changed(p) == p \notin DOMAIN fs \/ p \notin DOMAIN fs' \/ fs[p] # fs'[p]

\* C4: during the edit step the only entry that changes is the path of the
\* edit at hand, and only if it is a key of files_content; an edit for any
\* other path changes nothing
C4_EditsOnlyEligible ==
    [][pc = "edit" =>
          \A p \in DOMAIN fs \cup DOMAIN fs' :
              Changed(p) => /\ idx <= Len(modified_files)
                            /\ PathOf(p) = modified_files[idx][1]
                            /\ PathOf(p) \in Eligible]_vars

C4_Witness ==
    /\ pc = "done"
    /\ Writes # {}
    /\ \E k \in Keys(modified_files) :
          /\ k \notin Eligible
          /\ isfile(fs, path_join(ROOT_DIRECTORY, k))
          /\ \E w \in Range(warnings) : w.path = k

\* C5: a DELETE directive for a path outside the EligibleFileSet is not
\* applied: no file outside files_content is ever removed
C5_DeletesOnlyEligible == \A i \in Removes : PathOf(ops[i].path) \in Eligible

DeleteIteration == pc = "delete" /\ idx <= Len(files_to_delete)

DeleteTarget == path_join(ROOT_DIRECTORY, files_to_delete[idx])

Below(p, f) == {q \in DOMAIN f : IsPrefix(p, q)}

Warned == warnings' = Append(warnings, Warning("File to delete does not exist",
                                                files_to_delete[idx]))

GoesOn == pc' = "delete" /\ idx' = idx + 1 /\ exit_code' = exit_code

C9_DeleteThenEdit ==
    /\ \A i \in Writes : \A j \in Removes : j < i
    /\ (pc = "done" /\ gpt_response # <<>>) =>
          \A k \in Eligible \cap Range(files_to_delete) \cap Keys(modified_files) :
              LET a == path_join(ROOT_DIRECTORY, k)
                  code == Value(modified_files, k)
              IN  /\ isfile(fs, a)
                  /\ fs[Resolve(a)].content \in {code, code \o <<NL>>}
                  /\ \E j \in Removes : \E i \in Writes :
                         j < i /\ ops[j].path = Resolve(a) /\ ops[i].path = Resolve(a)

C9_Witness ==
    /\ pc = "done"
    /\ \E k \in Eligible \cap Range(files_to_delete) \cap Keys(modified_files) :
          isfile(fs, path_join(ROOT_DIRECTORY, k))

RECURSIVE TrailingNewlines(_)
TrailingNewlines(t) ==
    IF t # <<>> /\ t[Len(t)] = NL THEN 1 + TrailingNewlines(SubSeq(t, 1, Len(t) - 1)) ELSE 0

WithoutTrailingNewlines(t) == SubSeq(t, 1, Len(t) - TrailingNewlines(t))

CodeOf(i) == Value(modified_files, PathOf(ops[i].path))

\* C10 as stated: every content written ends with exactly one newline
C10_ExactlyOneNewline == \A i \in Writes : TrailingNewlines(ops[i].content) = 1

\* C10 amended: the content written is the replacement content with one
\* newline appended when it ends with none, and unchanged otherwise, so it
\* ends with exactly one newline unless the replacement ends with several
C10_AtLeastOneNewline ==
    \A i \in Writes :
        /\ WithoutTrailingNewlines(ops[i].content) = WithoutTrailingNewlines(CodeOf(i))
        /\ TrailingNewlines(ops[i].content) =
               IF TrailingNewlines(CodeOf(i)) = 0 THEN 1 ELSE TrailingNewlines(CodeOf(i))

C10_Witness ==
    /\ \E i \in Writes : TrailingNewlines(CodeOf(i)) = 0
    /\ \E i \in Writes : TrailingNewlines(CodeOf(i)) = 2
    /\ pc = "done"

(***************************************************************************)
(* Claims about the oracle call                                            *)
(***************************************************************************)
RECURSIVE SumSeq(_)
SumSeq(q) == IF q = <<>> THEN 0 ELSE Head(q) + SumSeq(Tail(q))

RECURSIVE SumOfPowers(_)
SumOfPowers(k) == IF k = 0 THEN 0 ELSE 2 ^ k + SumOfPowers(k - 1)

\* C6: at most max_retries calls, numbered from 1, none after a success; a
\* failed attempt k is followed by a wait of 2^k before attempt k+1; a
\* success at attempt k returns that attempt's text after waits that sum to
\* 2^1 + ... + 2^(k-1)
C6_RetryPolicy ==
    /\ Len(calls) <= max_retries
    /\ \A i \in 1..Len(calls) : calls[i].attempt = i
    /\ \A i \in 1..(Len(calls) - 1) : ~calls[i].ok
    /\ \A i \in 1..Len(sleeps) : i <= Len(calls) /\ ~calls[i].ok /\ sleeps[i] = 2 ^ i
    /\ pc = "attempt" => Len(sleeps) = Len(calls) /\ attempt = Len(calls) + 1
    /\ (calls # <<>> /\ calls[Len(calls)].ok) =>
          /\ pc = "parse"
          /\ gpt_response = calls[Len(calls)].text
          /\ Len(sleeps) = Len(calls) - 1
          /\ SumSeq(sleeps) = SumOfPowers(Len(calls) - 1)

C6_Witness ==
    /\ Len(calls) = 3
    /\ ~calls[1].ok /\ ~calls[2].ok /\ calls[3].ok
    /\ gpt_response = calls[3].text
    /\ sleeps = <<2, 4>>

AllAttemptsFailed ==
    max_retries > 0 /\ Len(calls) = max_retries /\ \A i \in 1..Len(calls) : ~calls[i].ok

====
